---- MODULE Spec2Model ----
(***************************************************************************)
(* A model of AutomationFramework (src/src/script-validator.ts, lines      *)
(* 338-810): the phase runner runScript, the step runner executeStep, the  *)
(* action dispatch executeAction, the condition poll waitForCondition /    *)
(* checkCondition and abort().                                             *)
(*                                                                         *)
(* JavaScript runs one callback to completion, so one action of the model  *)
(* is the code between two suspension points (an await) of a runScript     *)
(* call; abort() may be called between any two of them.  The collaborators *)
(* (launcher, console, ui, screen) are the environment: what they return   *)
(* is chosen with \E.                                                      *)
(*                                                                         *)
(* Further sections model, each under a specification of its own, parts    *)
(* of the collaborators and of the other classes of the repository: the    *)
(* pixel check of the screen, the timeout a wait action hands over, the    *)
(* console buffer of ProcessLauncher, BuildSystem and DemoManager.         *)
(***************************************************************************)
EXTENDS Integers, Sequences, FiniteSets, TLC

VARIABLES
    running,        \* AutomationFramework.running
    aborted,        \* AutomationFramework.aborted
    stepResults,    \* AutomationFramework.stepResults: a reference into heap
    heap,           \* the StepResult[] arrays the engine has allocated
    variables,      \* AutomationFramework.variables
    currentScript,  \* AutomationFramework.currentScript (the call that set it)
    events,         \* what emit() has delivered since the engine was last idle
    pc,             \* per runScript call: where the call is suspended
    script,         \* per call: the script argument
    phase,          \* per call: the loop the call is in
    idx,            \* per call: position of the for-of iterator
    elapsed,        \* per call: Date.now() - startTime inside waitForCondition
    err,            \* per call: the error in flight out of executeStep
    result,         \* per call: the TestResult returned
    nRuns,          \* runScript calls made so far
    probe           \* the collaborator examined on its own, a record whose
                    \* stage field tells which: a checkPixelColor call of the
                    \* screen, a wait action's call, the launcher's console
                    \* buffer, the build system, the collaborator
                    \* call of one action, the demo manager

vars == <<running, aborted, stepResults, heap, variables, currentScript, events,
          pc, script, phase, idx, elapsed, err, result, nRuns, probe>>

(***************************************************************************)
(* Bounds of the model.                                                    *)
(***************************************************************************)
\* most entries a script holds, setup, steps and teardown together
MaxSteps == 3
\* runScript calls made on one engine
MaxRuns == 2
\* most entries a script of variable steps holds
MaxVarSteps == 2
\* most entries a script has when two runs overlap
MaxOverlapSteps == 2
\* entries of a script of two runs made one after the other
MaxRerunSteps == 2

(***************************************************************************)
(* Program constants.                                                      *)
(***************************************************************************)
\* waitForCondition: condition.timeout || 30000
DefaultTimeout == 30000
\* waitForCondition: await this.delay(200)
PollInterval == 200
\* checkCondition: (condition.params.tolerance as number) || 10
DefaultTolerance == 10

\* runScript calls that can be in flight; the serialised specification uses
\* call 1 only and reuses it for the next run.
Calls == {1, 2}

VarNames == {"k"}

\* A JavaScript value: its type and what String() makes of it.  Two
\* primitive values are strictly equal when both agree.
Str(s) == [t |-> "string", v |-> s]
Num(s) == [t |-> "number", v |-> s]
\* what Map.get returns for a key the map does not hold
Undefined == [t |-> "undefined", v |-> "undefined"]
\* the values scripts and callers store: the string '5' and the number 5
Values == {Str("5"), Num("5")}

(***************************************************************************)
(* Scripts.  A step is { action, params, waitAfter?, condition? }; params  *)
(* is flattened to the fields name / value, an absent waitAfter is 0 and   *)
(* an absent condition has type "none".  name is the engine variable the   *)
(* params name (variable of assert, name of set_variable, storeAs of       *)
(* get_cvar, storeX of find_image), "" when they name none; value is the   *)
(* literal they carry (expected of assert, value of set_variable).         *)
(***************************************************************************)
NoCondition == [type |-> "none", timeout |-> 0]

\* { action: 'wait_for_image', params: { template } }: the screen
\* collaborator decides whether the action throws
ImageStep ==
    [action |-> "wait_for_image", name |-> "", value |-> "",
     waitAfter |-> 0, condition |-> NoCondition]

\* { action: 'log', waitAfter: 100, condition: { type: 'window_exists',
\*   timeout: 200 } }: the action cannot fail, the condition may time out
GatedStep ==
    [action |-> "log", name |-> "", value |-> "",
     waitAfter |-> 100,
     condition |-> [type |-> "window_exists", timeout |-> 200]]

StepKinds == {ImageStep, GatedStep}

\* { action: 'assert', params: { variable: 'k', expected } }
AssertStep(expected) ==
    [action |-> "assert", name |-> "k", value |-> expected,
     waitAfter |-> 0, condition |-> NoCondition]

\* { action: 'set_variable', params: { name: 'k', value } }
SetStep(value) ==
    [action |-> "set_variable", name |-> "k", value |-> value,
     waitAfter |-> 0, condition |-> NoCondition]

\* { action: 'frobnicate', params: {} }: not an action of executeAction
UnknownStep ==
    [action |-> "frobnicate", name |-> "k", value |-> Undefined,
     waitAfter |-> 0, condition |-> NoCondition]

\* the script asserts the number 5 and stores the string '5'; the caller
\* stores either
VarStepKinds == {AssertStep(Num("5")), SetStep(Str("5")), UnknownStep}

VarStepLists == UNION {[1..n -> VarStepKinds] : n \in 0..MaxVarSteps}

VarScripts ==
    {s \in [setup : VarStepLists, steps : VarStepLists, teardown : VarStepLists] :
        Len(s.setup) + Len(s.steps) + Len(s.teardown) <= MaxVarSteps}

StepLists == UNION {[1..n -> StepKinds] : n \in 0..MaxSteps}

\* AutomationScript; an absent setup / teardown is the empty list, which
\* runScript treats alike (script.setup && script.setup.length > 0)
Scripts ==
    {s \in [setup : StepLists, steps : StepLists, teardown : StepLists] :
        Len(s.setup) + Len(s.steps) + Len(s.teardown) <= MaxSteps}

NoScript == [setup |-> <<>>, steps |-> <<>>, teardown |-> <<>>]
NoResult == [passed |-> FALSE, steps |-> 0]

\* runScript: the list the finally block iterates
\* (script.teardown && script.teardown.length > 0)
TeardownOf(s) == s.teardown

PhaseList(c) ==
    CASE phase[c] = "setup" -> script[c].setup
      [] phase[c] = "main" -> script[c].steps
      [] OTHER -> TeardownOf(script[c])

CurrentStep(c) == PhaseList(c)[idx[c]]

(***************************************************************************)
(* emit(): the event is appended to the log of delivered events.  The      *)
(* fields call / phase / idx are not part of the payload: they tag the     *)
(* event with the loop position that emitted it.                           *)
(***************************************************************************)
Event(type, c, ph, i, action, success) ==
    [type |-> type, call |-> c, phase |-> ph, idx |-> i,
     action |-> action, success |-> success]

StepResult(action, success, error) ==
    [action |-> action, success |-> success, error |-> error]

Idle == \A c \in Calls : pc[c] \in {"idle", "returned"}

\* getPixelColor: null, when the capture failed or its output did not parse
NoPixel == [r |-> -1, g |-> -1, b |-> -1]

NoProbe ==
    [stage |-> "none", expected |-> NoPixel, tolerance |-> 0,
     actual |-> NoPixel, answer |-> FALSE]

\* the state of a new engine, but for the screen
NewEngine ==
    /\ running = FALSE
    /\ aborted = FALSE
    /\ stepResults = 0
    /\ heap = [a \in {0} \cup Calls |-> <<>>]
    /\ variables = [v \in VarNames |-> Undefined]
    /\ currentScript = 0
    /\ events = <<>>
    /\ pc = [c \in Calls |-> "idle"]
    /\ script = [c \in Calls |-> NoScript]
    /\ phase = [c \in Calls |-> "none"]
    /\ idx = [c \in Calls |-> 0]
    /\ elapsed = [c \in Calls |-> 0]
    /\ err = [c \in Calls |-> ""]
    /\ result = [c \in Calls |-> NoResult]
    /\ nRuns = 0

Init == NewEngine /\ probe = NoProbe


(***************************************************************************)
(* Pure parts of the code.                                                 *)
(***************************************************************************)
\* mutant: some() in place of every()
everyAsSome(rs) == \E i \in 1..Len(rs) : rs[i].success

\* runScript: this.stepResults.every((r) => r.success)
every(rs) == \A i \in 1..Len(rs) : rs[i].success

\* mutant: the abort test also at the head of the teardown loop
LoopBreaksTeardownToo(ph) == aborted

\* mutant: the abort test missing from the main loop
LoopBreaksSetupOnly(ph) == ph = "setup" /\ aborted

\* mutant: the abort test missing from both loops
LoopBreaksNever(ph) == FALSE

\* runScript: `if (this.aborted) break;` at the head of the setup and the
\* main loop; the teardown loop has no such test
LoopBreaks(ph) == ph \in {"setup", "main"} /\ aborted

\* runScript: `if (!this.aborted)` in front of the main phase
MainGuard == ~aborted

\* mutant: every loop wraps its step in a try with an empty catch
HandlerSwallowsAll(ph) == "swallow"

\* mutant: the teardown loop has no try around its step
HandlerNoTeardownCatch(ph) == IF ph = "teardown" THEN "rethrow" ELSE "catch"

\* runScript: where an error thrown by `await this.executeStep(step)` lands:
\* the catch of the outer try (setup, main), or the empty catch inside the
\* teardown loop
Handler(ph) == IF ph = "teardown" THEN "swallow" ELSE "catch"

\* mutant: the iterator does not advance
NextIndexStuck(i) == i

\* the for-of iterator's next position
NextIndex(i) == i + 1

\* mutant: the timeout of the condition is not read
TimeoutAlwaysDefault(cond) == DefaultTimeout

\* waitForCondition: condition.timeout || 30000
TimeoutOf(cond) == IF cond.timeout = 0 THEN DefaultTimeout ELSE cond.timeout

\* mutant: a condition of an unknown type is met
checkConditionLenient(cond) ==
    CASE cond.type \in {"console_pattern", "pixel_color", "cvar_value",
                        "window_exists"} -> {TRUE, FALSE}
      [] OTHER -> {TRUE}

\* checkCondition: the values one poll can return.  console_pattern,
\* pixel_color, cvar_value and window_exists ask a collaborator, which
\* answers either way; timeout is always true; any other type is false.
checkCondition(cond) ==
    CASE cond.type \in {"console_pattern", "pixel_color", "cvar_value",
                        "window_exists"} -> {TRUE, FALSE}
      [] cond.type = "timeout" -> {TRUE}
      [] OTHER -> {FALSE}

\* the time one checkCondition call can take, in ms.  pixel_color,
\* cvar_value and window_exists await a collaborator that runs an external
\* tool or a console round trip: the call is over at once or after a while.
\* console_pattern searches a buffer in memory, timeout and an unknown type
\* return a literal.
CheckDurations(cond) ==
    IF cond.type \in {"pixel_color", "cvar_value", "window_exists"}
    THEN {0, 250}
    ELSE {0}

\* actions that await a collaborator call that cannot reject, and ignore
\* what it returns (sendCommand and the calls built on it resolve on every
\* path, focusWindow catches, stop / forceKill / waitForPixelColor return)
QuietActions ==
    {"stop", "kill", "command", "set_cvar", "load_map", "exec_config",
     "focus_window", "wait", "wait_for_pixel"}

\* actions that await a collaborator call that can reject (launch and
\* restart throw, the xdotool calls of the ui reject when the tool fails,
\* waitForConsolePattern compiles its pattern), and ignore what it returns
RejectingActions ==
    {"launch", "restart", "mouse_move", "mouse_click", "double_click",
     "drag", "scroll", "type", "press_key", "key_combo", "toggle_console",
     "wait_for_console"}

\* actions that throw when the collaborator reports a negative result
CheckedActions ==
    {"screenshot", "check_pixel", "wait_for_image",
     "assert_running", "assert_not_running"}

\* get_cvar: cvar?.value, a string, or undefined when the console gave none
CvarValues == {Str("5"), Undefined}
\* find_image: match.x
MatchCoordinates == {Num("0"), Num("5")}

\* variables.set(name, v) when the params name a variable (storeAs,
\* storeX), else nothing
Stored(vs, name, v) == IF name = "" THEN vs ELSE [vs EXCEPT ![name] = v]

\* mutant: == in place of ===, which converts before it compares
looseEquals(a, b) == a.v = b.v

\* the operator === on primitive values (executeAction, line 672: !==)
strictEquals(a, b) == a = b

Returns(vs) == [error |-> "", variables |-> vs]
Throws(msg, vs) == [error |-> msg, variables |-> vs]

\* the actions that are one call of a collaborator
CollaboratorActions == QuietActions \cup RejectingActions \cup CheckedActions

\* the actions whose collaborator call reports how it went in the value it
\* returns: a CommandResult with success = false (sendCommand when the game
\* is not running, execConfig when the file is missing), false
\* (focusWindow, waitForPixelColor, checkPixelColor, isRunning), null
\* (waitForConsolePattern on timeout), found = false (waitForImage), a
\* failed Screenshot
AnsweringActions ==
    {"command", "set_cvar", "load_map", "exec_config", "focus_window",
     "wait_for_console", "wait_for_pixel"} \cup CheckedActions

\* how the collaborator call of an action can end: it returns what was
\* asked for, it returns a negative value, it throws
CollaboratorAnswers(action) ==
    {"positive"}
        \cup (IF action \in AnsweringActions THEN {"negative"} ELSE {})
        \cup (IF action \in RejectingActions THEN {"throws"} ELSE {})

\* mutant: a negative answer of the collaborator fails the action
ActionOutcomeStrict(action, answer, vs) ==
    CASE answer = "throws" -> Throws("Error: " \o action \o " rejected", vs)
      [] answer = "negative" -> Throws("Error: " \o action \o " failed", vs)
      [] OTHER -> Returns(vs)

\* executeAction: what the action makes of the end of its collaborator
\* call.  A throw passes through the await; the checked actions test what
\* was returned and throw on a negative value; every other action drops
\* what was returned
ActionOutcome(action, answer, vs) ==
    CASE answer = "throws" -> Throws("Error: " \o action \o " rejected", vs)
      [] answer = "negative" /\ action \in CheckedActions ->
            Throws("Error: " \o action \o " failed", vs)
      [] OTHER -> Returns(vs)

\* mutant: the switch has no default case
UnknownActionIgnored(step, vs) == {Returns(vs)}

\* executeAction, lines 699-700: the default case of the switch
UnknownAction(step, vs) ==
    {Throws("Error: Unknown action: " \o step.action, vs)}

\* executeAction: the outcomes of one action: the error it throws ("" when
\* it returns) and the variables map it leaves
executeAction(step, vs) ==
    CASE step.action \in CollaboratorActions ->
            {ActionOutcome(step.action, answer, vs) :
                answer \in CollaboratorAnswers(step.action)}
      [] step.action = "get_cvar" ->
            {Returns(Stored(vs, step.name, v)) : v \in CvarValues}
      [] step.action = "find_image" ->
            {Throws("Error: Image not found", vs)}
                \cup {Returns(Stored(vs, step.name, x)) : x \in MatchCoordinates}
      [] step.action = "assert" ->
            IF ~strictEquals(vs[step.name], step.value)
            THEN {Throws("Error: Assertion failed: " \o step.name \o " = "
                            \o vs[step.name].v \o ", expected "
                            \o step.value.v, vs)}
            ELSE {Returns(vs)}
      [] step.action = "set_variable" ->
            {Returns([vs EXCEPT ![step.name] = step.value])}
      [] step.action = "log" ->
            {Returns(vs)}
      [] OTHER ->
            UnknownAction(step, vs)

\* the events delivered after the last scriptComplete
RECURSIVE IdleSuffix(_)
IdleSuffix(ev) ==
    IF ev = <<>> THEN <<>>
    ELSE IF ev[Len(ev)].type = "scriptComplete" THEN <<>>
    ELSE Append(IdleSuffix(SubSeq(ev, 1, Len(ev) - 1)), ev[Len(ev)])

\* mutant: the reset of the run state also empties the map
VariablesClearedAtStart(vs) == [v \in VarNames |-> Undefined]

\* runScript, lines 355-358: the reset of the run state assigns running,
\* aborted, currentScript and stepResults, and leaves the map as it is
VariablesAtStart(vs) == vs

\* mutant: the flag of an earlier abort() survives the start of a run
AbortedKeptAtStart(a) == a

\* runScript, line 356: this.aborted = false
AbortedAtStart(a) == FALSE

(***************************************************************************)
(* runScript, lines 354-361: the call resets the run state and emits       *)
(* scriptStart.                                                            *)
(***************************************************************************)
runScript(c, s) ==
    /\ pc[c] \in {"idle", "returned"}
    /\ nRuns < MaxRuns
    /\ nRuns' = nRuns + 1
    /\ UNCHANGED probe
    /\ running' = TRUE
    /\ aborted' = AbortedAtStart(aborted)
    /\ currentScript' = c
    /\ stepResults' = c
    /\ heap' = [heap EXCEPT ![c] = <<>>]
    /\ events' = Append(IF Idle THEN IdleSuffix(events) ELSE events,
                        Event("scriptStart", c, "none", 0, "", TRUE))
    /\ pc' = [pc EXCEPT ![c] = "try"]
    /\ script' = [script EXCEPT ![c] = s]
    /\ phase' = [phase EXCEPT ![c] = "none"]
    /\ idx' = [idx EXCEPT ![c] = 0]
    /\ elapsed' = [elapsed EXCEPT ![c] = 0]
    /\ err' = [err EXCEPT ![c] = ""]
    /\ result' = [result EXCEPT ![c] = NoResult]
    /\ variables' = VariablesAtStart(variables)

\* what a phase leaves alone when it only moves the call on
Frame == UNCHANGED <<running, aborted, stepResults, heap, variables,
                     currentScript, script, elapsed, err, result, nRuns, probe>>

\* runScript, lines 365-366: enter the setup phase when the script has one
EnterSetup(c) ==
    /\ pc[c] = "try"
    /\ IF Len(script[c].setup) > 0
       THEN /\ events' = Append(events, Event("phase", c, "setup", 0, "", TRUE))
            /\ pc' = [pc EXCEPT ![c] = "loop"]
            /\ phase' = [phase EXCEPT ![c] = "setup"]
            /\ idx' = [idx EXCEPT ![c] = 1]
       ELSE /\ pc' = [pc EXCEPT ![c] = "main_gate"]
            /\ UNCHANGED <<events, phase, idx>>
    /\ Frame

\* runScript, lines 374-375: enter the main phase unless aborted
EnterMain(c) ==
    /\ pc[c] = "main_gate"
    /\ IF MainGuard
       THEN /\ events' = Append(events, Event("phase", c, "main", 0, "", TRUE))
            /\ pc' = [pc EXCEPT ![c] = "loop"]
            /\ phase' = [phase EXCEPT ![c] = "main"]
            /\ idx' = [idx EXCEPT ![c] = 1]
       ELSE /\ pc' = [pc EXCEPT ![c] = "finally"]
            /\ UNCHANGED <<events, phase, idx>>
    /\ Frame

\* runScript, lines 390-391: the finally block enters teardown when the
\* script has one
EnterTeardown(c) ==
    /\ pc[c] = "finally"
    /\ IF Len(TeardownOf(script[c])) > 0
       THEN /\ events' = Append(events, Event("phase", c, "teardown", 0, "", TRUE))
            /\ pc' = [pc EXCEPT ![c] = "loop"]
            /\ phase' = [phase EXCEPT ![c] = "teardown"]
            /\ idx' = [idx EXCEPT ![c] = 1]
       ELSE /\ pc' = [pc EXCEPT ![c] = "finish"]
            /\ UNCHANGED <<events, phase, idx>>
    /\ Frame

\* the pc a phase's loop goes to when it ends or breaks
AfterLoop(ph) ==
    CASE ph = "setup" -> "main_gate"
      [] ph = "main" -> "finally"
      [] OTHER -> "finish"

\* runScript, lines 367-369, 376-378, 392-394: the head of a for-of loop.
\* The loop ends when the list is exhausted or (setup, main) the abort flag
\* is set; otherwise executeStep is called, which emits stepStart and
\* awaits executeAction (lines 420-426).
LoopHead(c) ==
    /\ pc[c] = "loop"
    /\ IF idx[c] > Len(PhaseList(c)) \/ LoopBreaks(phase[c])
       THEN /\ pc' = [pc EXCEPT ![c] = AfterLoop(phase[c])]
            /\ UNCHANGED events
       ELSE /\ pc' = [pc EXCEPT ![c] = "action"]
            /\ events' = Append(events,
                   Event("stepStart", c, phase[c], idx[c],
                         CurrentStep(c).action, TRUE))
    /\ UNCHANGED <<phase, idx>>
    /\ Frame


(***************************************************************************)
(* executeStep, lines 420-462.                                             *)
(***************************************************************************)
\* mutant: the result is pushed by the try block and again after it
SuccessRecordedTwice(step) ==
    <<StepResult(step.action, TRUE, ""), StepResult(step.action, TRUE, "")>>

\* executeStep, lines 441-447: what the try block pushes for a step
SuccessRecord(step) == <<StepResult(step.action, TRUE, "")>>

\* mutant: the catch block rethrows without pushing
FailureUnrecorded(step, msg) == <<>>

\* executeStep, lines 451-458: what the catch block pushes for a step
FailureRecord(step, msg) == <<StepResult(step.action, FALSE, msg)>>

\* mutant: the catch of the phases records nothing
SyntheticUnrecorded(msg) == <<>>

\* mutant: the catch of the phases pushes its result twice
SyntheticRecordedTwice(msg) ==
    <<StepResult("error", FALSE, msg), StepResult("error", FALSE, msg)>>

\* runScript, lines 382-387: what the catch of the phases pushes
SyntheticRecord(msg) == <<StepResult("error", FALSE, msg)>>

\* executeStep, lines 441-449: push the result, emit stepComplete, return
\* to the loop that awaited the step; the clock of waitForCondition (its
\* local startTime) is gone
Succeed(c, ev) ==
    /\ heap' = [heap EXCEPT ![stepResults] = @ \o SuccessRecord(CurrentStep(c))]
    /\ events' = Append(ev, Event("stepComplete", c, phase[c], idx[c],
                                  CurrentStep(c).action, TRUE))
    /\ pc' = [pc EXCEPT ![c] = "loop"]
    /\ idx' = [idx EXCEPT ![c] = NextIndex(@)]
    /\ elapsed' = [elapsed EXCEPT ![c] = 0]
    /\ UNCHANGED err

\* mutant: the catch block emits nothing
FailureEmitsNothing(ev, e) == ev

\* executeStep, line 459: the catch block emits stepComplete
FailureEmits(ev, e) == Append(ev, e)

\* executeStep, lines 450-461: push the failed result, emit stepComplete,
\* rethrow
Fail(c, ev, msg) ==
    /\ heap' = [heap EXCEPT ![stepResults] = @ \o FailureRecord(CurrentStep(c), msg)]
    /\ events' = FailureEmits(ev, Event("stepComplete", c, phase[c], idx[c],
                                        CurrentStep(c).action, FALSE))
    /\ pc' = [pc EXCEPT ![c] = "thrown"]
    /\ err' = [err EXCEPT ![c] = msg]
    /\ elapsed' = [elapsed EXCEPT ![c] = 0]
    /\ UNCHANGED idx

\* mutant: the post-delay is skipped
AfterActionSkipsDelay(c, ev) ==
    IF CurrentStep(c).condition.type # "none"
    THEN /\ pc' = [pc EXCEPT ![c] = "cond"]
         /\ elapsed' = [elapsed EXCEPT ![c] = 0]
         /\ events' = ev
         /\ UNCHANGED <<heap, idx, err>>
    ELSE Succeed(c, ev)

\* executeStep, lines 428-439, once the action has returned: the post-delay
\* when waitAfter is set, else the condition wait when there is a
\* condition, else the step has succeeded
AfterAction(c, ev) ==
    IF CurrentStep(c).waitAfter > 0
    THEN /\ pc' = [pc EXCEPT ![c] = "delay"]
         /\ events' = ev
         /\ UNCHANGED <<heap, idx, err, elapsed>>
    ELSE IF CurrentStep(c).condition.type # "none"
    THEN /\ pc' = [pc EXCEPT ![c] = "cond"]
         /\ elapsed' = [elapsed EXCEPT ![c] = 0]
         /\ events' = ev
         /\ UNCHANGED <<heap, idx, err>>
    ELSE Succeed(c, ev)

\* executeStep line 426 with executeAction, lines 467-702: the awaited
\* action returns or throws
ExecuteAction(c) ==
    /\ pc[c] = "action"
    /\ \E o \in executeAction(CurrentStep(c), variables) :
         LET ev == IF CurrentStep(c).action = "log" /\ o.error = ""
                   THEN Append(events, Event("log", c, phase[c], idx[c], "log", TRUE))
                   ELSE events
         IN /\ variables' = o.variables
            /\ IF o.error # ""
               THEN Fail(c, ev, o.error)
               ELSE AfterAction(c, ev)
    /\ UNCHANGED <<running, aborted, stepResults, currentScript, script, phase,
                   result, nRuns, probe>>

\* executeStep, lines 429-431: `await this.delay(step.waitAfter)` is over
Delay(c) ==
    /\ pc[c] = "delay"
    /\ IF CurrentStep(c).condition.type # "none"
       THEN /\ pc' = [pc EXCEPT ![c] = "cond"]
            /\ elapsed' = [elapsed EXCEPT ![c] = 0]
            /\ UNCHANGED <<heap, events, idx, err>>
       ELSE Succeed(c, events)
    /\ UNCHANGED <<running, aborted, stepResults, variables, currentScript,
                   script, phase, result, nRuns, probe>>

\* JSON.stringify of a WaitCondition { type, params, timeout }: the keys in
\* the order they were written, an absent timeout left out; the conditions
\* of the model carry no params
stringify(cond) ==
    "{\"type\":\"" \o cond.type \o "\",\"params\":{}"
        \o (IF cond.timeout = 0 THEN ""
            ELSE ",\"timeout\":" \o ToString(cond.timeout))
        \o "}"

\* mutant: the error does not say which condition
ConditionNotMetUnnamed(cond) == "Error: Condition not met"

\* executeStep, lines 435-438, as String(error) renders it at line 455
ConditionNotMet(cond) == "Error: Condition not met: " \o stringify(cond)

\* waitForCondition, lines 711-719, one turn of the while loop up to the
\* await of delay(200), with executeStep lines 435-438: while the timeout
\* has not elapsed the condition is checked, which takes d ms, and is met
\* (the step succeeds) or not met yet; once the timeout has elapsed the
\* wait returns false (the step throws "Condition not met: ...")
waitForCondition(c) ==
    /\ pc[c] = "cond"
    /\ IF elapsed[c] < TimeoutOf(CurrentStep(c).condition)
       THEN \E met \in checkCondition(CurrentStep(c).condition),
               d \in CheckDurations(CurrentStep(c).condition) :
              IF met
              THEN Succeed(c, events)
              ELSE /\ pc' = [pc EXCEPT ![c] = "poll"]
                   /\ elapsed' = [elapsed EXCEPT ![c] = @ + d]
                   /\ UNCHANGED <<heap, events, idx, err>>
       ELSE Fail(c, events, ConditionNotMet(CurrentStep(c).condition))
    /\ UNCHANGED <<running, aborted, stepResults, variables, currentScript,
                   script, phase, result, nRuns, probe>>

\* waitForCondition, line 716: `await this.delay(200)` is over
PollDelay(c) ==
    /\ pc[c] = "poll"
    /\ pc' = [pc EXCEPT ![c] = "cond"]
    /\ elapsed' = [elapsed EXCEPT ![c] = @ + PollInterval]
    /\ UNCHANGED <<running, aborted, stepResults, heap, variables,
                   currentScript, events, script, phase, idx, err, result,
                   nRuns, probe>>

\* runScript, lines 381-388 and 395-397: the error thrown by executeStep
\* reaches its handler.  The catch of the phases records the synthetic
\* result and falls into finally; the catch of the teardown loop drops the
\* error and the loop goes on.  An error no handler takes rejects the
\* promise runScript returned.
Propagate(c) ==
    /\ pc[c] = "thrown"
    /\ CASE Handler(phase[c]) = "catch" ->
              /\ heap' = [heap EXCEPT ![stepResults] = @ \o SyntheticRecord(err[c])]
              /\ pc' = [pc EXCEPT ![c] = "finally"]
              /\ UNCHANGED idx
         [] Handler(phase[c]) = "swallow" ->
              /\ pc' = [pc EXCEPT ![c] = "loop"]
              /\ idx' = [idx EXCEPT ![c] = NextIndex(@)]
              /\ UNCHANGED heap
         [] OTHER ->
              /\ pc' = [pc EXCEPT ![c] = "rejected"]
              /\ UNCHANGED <<heap, idx>>
    /\ UNCHANGED <<running, aborted, stepResults, variables, currentScript,
                   events, script, phase, elapsed, err, result, nRuns, probe>>

\* mutant: the flag is not cleared when the run is over
RunningLeftSet == TRUE

\* runScript, line 402: `this.running = false` after the finally block
RunningAtFinish == FALSE

\* isRunning, lines 773-775
isRunning == running

\* runScript, lines 402-414: the run is over
Finish(c) ==
    /\ pc[c] = "finish"
    /\ running' = RunningAtFinish
    /\ result' = [result EXCEPT ![c] =
                    [passed |-> every(heap[stepResults]), steps |-> stepResults]]
    /\ events' = Append(events, Event("scriptComplete", c, "none", 0, "",
                                      every(heap[stepResults])))
    /\ pc' = [pc EXCEPT ![c] = "returned"]
    /\ UNCHANGED <<aborted, stepResults, heap, variables, currentScript,
                   script, phase, idx, elapsed, err, nRuns, probe>>

\* mutant: abort() pushes a failed result of its own
abortRecorded ==
    /\ aborted' = TRUE
    /\ events' = IF aborted THEN events
                  ELSE Append(events, Event("abort", 0, "none", 0, "", TRUE))
    /\ heap' = IF aborted THEN heap
                ELSE [heap EXCEPT ![stepResults] =
                        Append(@, StepResult("abort", FALSE, "Error: aborted"))]
    /\ UNCHANGED <<running, stepResults, variables, currentScript, pc,
                   script, phase, idx, elapsed, err, result, nRuns, probe>>

\* abort, lines 765-768.  The call sets the flag and emits 'abort'.  Nothing
\* in the engine reads that event, and a call that finds the flag set
\* changes no state; the log keeps the event of the calls that set the
\* flag, so a repeated abort() is a stuttering step.
abort ==
    /\ aborted' = TRUE
    /\ events' = IF aborted THEN events
                  ELSE Append(events, Event("abort", 0, "none", 0, "", TRUE))
    /\ UNCHANGED <<running, stepResults, heap, variables, currentScript, pc,
                   script, phase, idx, elapsed, err, result, nRuns, probe>>

(***************************************************************************)
(* The first run of a script on a new engine: abort() may be called before *)
(* the run, at any point of it and after it.  runScript resets running,    *)
(* aborted and stepResults when it starts, so what a run does depends on   *)
(* the engine's past only through variables.                               *)
(***************************************************************************)
Serial == {1}

Next ==
    \/ \E c \in Serial, s \in Scripts : nRuns = 0 /\ runScript(c, s)
    \/ \E c \in Serial : EnterSetup(c)
    \/ \E c \in Serial : EnterMain(c)
    \/ \E c \in Serial : EnterTeardown(c)
    \/ \E c \in Serial : LoopHead(c)
    \/ \E c \in Serial : ExecuteAction(c)
    \/ \E c \in Serial : Delay(c)
    \/ \E c \in Serial : waitForCondition(c)
    \/ \E c \in Serial : PollDelay(c)
    \/ \E c \in Serial : Propagate(c)
    \/ \E c \in Serial : Finish(c)
    \/ abort

Spec == Init /\ [][Next]_vars


(***************************************************************************)
(* The variables of the engine, lines 787-803.  A Map holds no entry for a *)
(* key never set or cleared, and get() of such a key is undefined.         *)
(***************************************************************************)
getVariable(name) == variables[name]

setVariable(name, value) ==
    /\ variables' = [variables EXCEPT ![name] = value]
    /\ UNCHANGED <<running, aborted, stepResults, heap, currentScript, events,
                   pc, script, phase, idx, elapsed, err, result, nRuns, probe>>

clearVariables ==
    /\ variables' = [v \in VarNames |-> Undefined]
    /\ UNCHANGED <<running, aborted, stepResults, heap, currentScript, events,
                   pc, script, phase, idx, elapsed, err, result, nRuns, probe>>

(***************************************************************************)
(* An engine that is reused: runs of scripts of assert, set_variable and   *)
(* unknown steps, one after the other as the caller must make them, with   *)
(* the caller setting and clearing variables before, during and after the  *)
(* runs.  No run is aborted.                                               *)
(***************************************************************************)
NextReuse ==
    \/ \E c \in Serial, s \in VarScripts : runScript(c, s)
    \/ \E c \in Serial : EnterSetup(c)
    \/ \E c \in Serial : EnterMain(c)
    \/ \E c \in Serial : EnterTeardown(c)
    \/ \E c \in Serial : LoopHead(c)
    \/ \E c \in Serial : ExecuteAction(c)
    \/ \E c \in Serial : Propagate(c)
    \/ \E c \in Serial : Finish(c)
    \/ \E name \in VarNames, value \in Values : setVariable(name, value)
    \/ clearVariables

SpecReuse == Init /\ [][NextReuse]_vars

(***************************************************************************)
(* Two runScript calls on one engine that overlap: the caller does not     *)
(* await the first call before it makes the second, and each call goes on  *)
(* whenever the promise it awaits settles.  The script of call 1 takes     *)
(* images and the script of call 2 takes screenshots, so that a result     *)
(* tells which call's step it is of.                                       *)
(***************************************************************************)
\* { action: 'screenshot', params: {} }
ShotStep ==
    [action |-> "screenshot", name |-> "", value |-> "",
     waitAfter |-> 0, condition |-> NoCondition]

OverlapScripts(c) ==
    {[setup |-> <<>>,
      steps |-> [i \in 1..n |-> IF c = 1 THEN ImageStep ELSE ShotStep],
      teardown |-> <<>>] : n \in 1..MaxOverlapSteps}

NextOverlap ==
    \/ \E c \in Calls : \E s \in OverlapScripts(c) :
            pc[c] = "idle" /\ runScript(c, s)
    \/ \E c \in Calls : EnterSetup(c)
    \/ \E c \in Calls : EnterMain(c)
    \/ \E c \in Calls : EnterTeardown(c)
    \/ \E c \in Calls : LoopHead(c)
    \/ \E c \in Calls : ExecuteAction(c)
    \/ \E c \in Calls : Propagate(c)
    \/ \E c \in Calls : Finish(c)

SpecOverlap == Init /\ [][NextOverlap]_vars

(***************************************************************************)
(* Condition waits: one run of a script whose single step logs a message   *)
(* and is gated by a condition.  The checks return and the timers fire, so *)
(* a call that can go on does go on.                                       *)
(***************************************************************************)
\* { action: 'log', condition: { type, timeout } }
WaitStep(type, timeout) ==
    [action |-> "log", name |-> "", value |-> "",
     waitAfter |-> 0, condition |-> [type |-> type, timeout |-> timeout]]

\* { action: 'wait_for_image', waitAfter: 100, condition: { type:
\* 'window_exists', timeout: 200 } }: the action may throw, and is followed
\* by a post-delay and a condition wait when it does not
GatedImageStep ==
    [action |-> "wait_for_image", name |-> "", value |-> "",
     waitAfter |-> 100,
     condition |-> [type |-> "window_exists", timeout |-> 200]]

\* a window that may never appear, waited for 950 or 1000 ms, with and
\* without a post-delay; a fixed wait of 1000 ms; a condition of no known
\* type with no timeout of its own; an action that may throw before its
\* post-delay and condition wait
WaitStepKinds ==
    {WaitStep("window_exists", 950), WaitStep("window_exists", 1000),
     GatedStep, WaitStep("timeout", 1000), WaitStep("never", 0),
     GatedImageStep}

WaitScripts ==
    {[setup |-> <<>>, steps |-> <<step>>, teardown |-> <<>>] :
        step \in WaitStepKinds}

NextWait ==
    \/ \E c \in Serial, s \in WaitScripts : pc[c] = "idle" /\ runScript(c, s)
    \/ \E c \in Serial : EnterSetup(c)
    \/ \E c \in Serial : EnterMain(c)
    \/ \E c \in Serial : EnterTeardown(c)
    \/ \E c \in Serial : LoopHead(c)
    \/ \E c \in Serial : ExecuteAction(c)
    \/ \E c \in Serial : Delay(c)
    \/ \E c \in Serial : waitForCondition(c)
    \/ \E c \in Serial : PollDelay(c)
    \/ \E c \in Serial : Propagate(c)
    \/ \E c \in Serial : Finish(c)

SpecWait == Init /\ [][NextWait]_vars /\ WF_vars(NextWait)

(***************************************************************************)
(* The pixel_color check.  checkCondition (lines 735-742) calls            *)
(* screen.checkPixelColor(x, y, expected, tolerance || 10), which samples  *)
(* the pixel with getPixelColor and compares it with the expected colour   *)
(* channel by channel (src/unnamed/part_003, lines 282-298).               *)
(***************************************************************************)
\* Math.abs
Abs(n) == IF n < 0 THEN -n ELSE n

\* checkCondition: (condition.params.tolerance as number) || 10; an absent
\* tolerance is 0 here
ToleranceOf(tolerance) == IF tolerance = 0 THEN DefaultTolerance ELSE tolerance

\* mutant: the three differences are added up before they are compared
WithinToleranceSummed(actual, expected, tolerance) ==
    /\ actual # NoPixel
    /\ Abs(actual.r - expected.r) + Abs(actual.g - expected.g)
          + Abs(actual.b - expected.b) <= tolerance

\* checkPixelColor, lines 289-297
WithinTolerance(actual, expected, tolerance) ==
    IF actual = NoPixel
    THEN FALSE
    ELSE LET dr == Abs(actual.r - expected.r)
             dg == Abs(actual.g - expected.g)
             db == Abs(actual.b - expected.b)
         IN dr <= tolerance /\ dg <= tolerance /\ db <= tolerance

\* the values of a channel around the expected 100: 11 and 10 below, equal,
\* 10 and 11 above
Channels == {89, 90, 100, 110, 111}
Samples == [r : Channels, g : Channels, b : Channels]
Expected == [r |-> 100, g |-> 100, b |-> 100]
\* params.tolerance: absent, 5 or 10
Tolerances == {0, 5, 10}

\* a pixel_color condition is about to be checked
InitPixel ==
    /\ NewEngine
    /\ probe \in {[stage |-> "called", expected |-> Expected, tolerance |-> tol,
                    actual |-> NoPixel, answer |-> FALSE] : tol \in Tolerances}

\* checkPixelColor, line 288: getPixelColor has returned a colour or null
getPixelColor ==
    /\ probe.stage = "called"
    /\ \E actual \in Samples \cup {NoPixel} :
         probe' = [probe EXCEPT !.stage = "sampled", !.actual = actual]
    /\ UNCHANGED <<running, aborted, stepResults, heap, variables,
                   currentScript, events, pc, script, phase, idx, elapsed,
                   err, result, nRuns>>

\* checkPixelColor, lines 289-297: the comparison, returned to
\* checkCondition
checkPixelColor ==
    /\ probe.stage = "sampled"
    /\ probe' = [probe EXCEPT
                   !.stage = "returned",
                   !.answer = WithinTolerance(probe.actual, probe.expected,
                                              ToleranceOf(probe.tolerance))]
    /\ UNCHANGED <<running, aborted, stepResults, heap, variables,
                   currentScript, events, pc, script, phase, idx, elapsed,
                   err, result, nRuns>>

NextPixel == getPixelColor \/ checkPixelColor

SpecPixel == InitPixel /\ [][NextPixel]_vars

(***************************************************************************)
(* Two runs of one engine, the second started after the first has          *)
(* returned, with abort() called at any time.  The first run is call 1 and *)
(* waits for images in its steps; the second is call 2 and takes           *)
(* screenshots in its setup and steps, so that a result tells which run    *)
(* pushed it.  The array the first run returned stays in the heap.         *)
(***************************************************************************)
RerunScripts(c) ==
    IF c = 1
    THEN {[setup |-> <<>>, steps |-> [i \in 1..n |-> ImageStep],
           teardown |-> <<>>] : n \in 1..MaxRerunSteps}
    ELSE {[setup |-> [i \in 1..n[1] |-> ShotStep],
           steps |-> [i \in 1..n[2] |-> ShotStep],
           teardown |-> <<>>] :
              n \in {m \in (0..MaxRerunSteps) \X (0..MaxRerunSteps) :
                        m[1] + m[2] <= MaxRerunSteps}}

NextRerun ==
    \/ \E s \in RerunScripts(1) : pc[1] = "idle" /\ runScript(1, s)
    \/ \E s \in RerunScripts(2) :
          pc[1] = "returned" /\ pc[2] = "idle" /\ runScript(2, s)
    \/ \E c \in Calls : EnterSetup(c)
    \/ \E c \in Calls : EnterMain(c)
    \/ \E c \in Calls : EnterTeardown(c)
    \/ \E c \in Calls : LoopHead(c)
    \/ \E c \in Calls : ExecuteAction(c)
    \/ \E c \in Calls : Propagate(c)
    \/ \E c \in Calls : Finish(c)
    \/ abort

SpecRerun == Init /\ [][NextRerun]_vars

(***************************************************************************)
(* Reading the event log.                                                  *)
(***************************************************************************)
Pos == 1..Len(events)

IsStart(j, c, phs) ==
    /\ events[j].type = "stepStart"
    /\ events[j].call = c
    /\ events[j].phase \in phs

IsComplete(j, c, phs) ==
    /\ events[j].type = "stepComplete"
    /\ events[j].call = c
    /\ events[j].phase \in phs

IsFailure(j, c, phs) == IsComplete(j, c, phs) /\ ~events[j].success

\* the list positions whose entries call c has started in phase ph, in the
\* order they were started
Started(c, ph) ==
    LET Sel(e) == e.type = "stepStart" /\ e.call = c /\ e.phase = ph
        sel == SelectSeq(events, Sel)
    IN [i \in 1..Len(sel) |-> sel[i].idx]

OneToN(n) == [i \in 1..n |-> i]

\* the call is past its teardown loop
Ended(c) == pc[c] \in {"finish", "returned", "rejected"}

TeardownInFull(c) == Started(c, "teardown") = OneToN(Len(script[c].teardown))

Phased == {"setup", "main"}

(***************************************************************************)
(* C1: whatever happens in setup and steps (success, a failing step, an    *)
(* abort at any point), runScript has started every teardown entry exactly *)
(* once, in list order, by the time it returns; and it does return.        *)
(***************************************************************************)
C1_TeardownAlwaysRuns ==
    \A c \in Calls :
        /\ pc[c] # "rejected"
        /\ \E n \in 0..Len(script[c].teardown) : Started(c, "teardown") = OneToN(n)
        /\ Ended(c) => TeardownInFull(c)

\* a run that was aborted after a setup step failed, and has run both
\* entries of its teardown
C1_Witness ==
    /\ pc[1] = "returned"
    /\ Len(script[1].teardown) = 2
    /\ Started(1, "teardown") = <<1, 2>>
    /\ \E j \in Pos : IsFailure(j, 1, {"setup"})
    /\ aborted

(***************************************************************************)
(* C2: once a setup or steps entry has failed, no further setup or steps   *)
(* entry is started in that run, and the teardown entries all run.         *)
(***************************************************************************)
C2_FailureHaltsPhases ==
    \A c \in Calls :
        \A j \in Pos :
            IsFailure(j, c, Phased) =>
                /\ \A k \in Pos : k > j => ~IsStart(k, c, Phased)
                /\ Ended(c) => TeardownInFull(c)

\* the first of two setup entries failed, the second was never started,
\* and the run is over with its teardown entry started
C2_Witness ==
    /\ pc[1] = "returned"
    /\ Len(script[1].setup) = 2
    /\ \E j \in Pos : IsFailure(j, 1, {"setup"}) /\ events[j].idx = 1
    /\ Started(1, "setup") = <<1>>
    /\ Started(1, "teardown") = <<1>>

(***************************************************************************)
(* C3: a failing teardown entry never keeps the next teardown entry from   *)
(* starting; teardown entries start strictly in list order.                *)
(***************************************************************************)
C3_TeardownNotShortCircuited ==
    \A c \in Calls :
        /\ \E n \in 0..Len(script[c].teardown) : Started(c, "teardown") = OneToN(n)
        /\ \A j \in Pos :
             (/\ IsFailure(j, c, {"teardown"})
              /\ events[j].idx < Len(script[c].teardown)
              /\ Ended(c))
             => \E k \in Pos : /\ k > j
                               /\ IsStart(k, c, {"teardown"})
                               /\ events[k].idx = events[j].idx + 1

\* the first teardown entry failed and the second was started after it
C3_Witness ==
    \E j, k \in Pos :
        /\ j < k
        /\ IsFailure(j, 1, {"teardown"}) /\ events[j].idx = 1
        /\ IsStart(k, 1, {"teardown"}) /\ events[k].idx = 2

(***************************************************************************)
(* C4: runScript never rejects; the TestResult it returns has passed =     *)
(* FALSE whenever a step failed in setup, steps or teardown.               *)
(***************************************************************************)
C4_NeverThrows ==
    \A c \in Calls :
        /\ pc[c] # "rejected"
        /\ pc[c] = "returned" =>
             ((\E j \in Pos : IsFailure(j, c, {"setup", "main", "teardown"}))
                 => ~result[c].passed)

\* a run whose only failure is in teardown has returned passed = FALSE
C4_Witness ==
    /\ pc[1] = "returned"
    /\ ~result[1].passed
    /\ \E j \in Pos : IsFailure(j, 1, {"teardown"})
    /\ ~\E j \in Pos : IsFailure(j, 1, Phased)

(***************************************************************************)
(* C5: passed is TRUE exactly when every StepResult of the returned        *)
(* sequence has success = TRUE, teardown results included; a run with no   *)
(* steps and no failure in setup or teardown has passed = TRUE.            *)
(***************************************************************************)
C5_PassedIffAllSucceeded ==
    \A c \in Calls :
        pc[c] = "returned" =>
            LET rs == heap[result[c].steps]
            IN /\ result[c].passed <=> (\A i \in 1..Len(rs) : rs[i].success)
               /\ (/\ script[c].steps = <<>>
                   /\ ~\E j \in Pos : IsFailure(j, c, {"setup", "teardown"}))
                  => result[c].passed

\* a run with an empty steps list, a setup and a teardown entry that both
\* succeeded, and passed = TRUE
C5_Witness ==
    /\ pc[1] = "returned"
    /\ script[1].steps = <<>>
    /\ Len(heap[result[1].steps]) = 2
    /\ result[1].passed


(***************************************************************************)
(* C6: the recorded sequence holds one StepResult for each executed step,  *)
(* in execution order, and after the result of a failed setup or steps     *)
(* entry one more, the synthetic result with action "error"; so a script   *)
(* whose single steps entry fails yields two failed StepResults.           *)
(***************************************************************************)
Outcome(action, success) == [action |-> action, success |-> success]

\* what the first n events say the recorded sequence of call c holds
RECURSIVE ExpectedResults(_, _)
ExpectedResults(c, n) ==
    IF n = 0 THEN <<>>
    ELSE LET e == events[n]
             before == ExpectedResults(c, n - 1)
         IN IF e.type = "stepComplete" /\ e.call = c
            THEN before \o <<Outcome(e.action, e.success)>>
                        \o (IF ~e.success /\ e.phase \in Phased
                            THEN <<Outcome("error", FALSE)>> ELSE <<>>)
            ELSE before

Recorded(c) ==
    LET rs == heap[result[c].steps]
    IN [i \in 1..Len(rs) |-> Outcome(rs[i].action, rs[i].success)]

Executed(c) == {j \in Pos : IsStart(j, c, {"setup", "main", "teardown"})}

SingleFailingStep(c) ==
    /\ script[c].setup = <<>> /\ script[c].teardown = <<>>
    /\ Len(script[c].steps) = 1
    /\ \E j \in Pos : IsFailure(j, c, {"main"})

FailedResults(c) ==
    {i \in 1..Len(heap[result[c].steps]) : ~heap[result[c].steps][i].success}

\* C6 (amended): one StepResult per executed step, in order, plus the
\* synthetic "error" result after a failed setup or steps entry
C6_OneResultPerStepPlusSynthetic ==
    \A c \in Calls :
        pc[c] = "returned" =>
            /\ Recorded(c) = ExpectedResults(c, Len(events))
            /\ Cardinality({j \in Pos : IsComplete(j, c, {"setup", "main", "teardown"})})
                 = Cardinality(Executed(c))
            /\ SingleFailingStep(c) =>
                 /\ Cardinality(FailedResults(c)) = 2
                 /\ heap[result[c].steps][2].action = "error"
                 /\ heap[result[c].steps][2].error = heap[result[c].steps][1].error

\* C6 as stated: the returned sequence holds the executed steps' results
\* and nothing else, and a single failing steps entry yields exactly one
\* failed StepResult
C6_AsStated ==
    \A c \in Calls :
        pc[c] = "returned" =>
            /\ Len(heap[result[c].steps]) = Cardinality(Executed(c))
            /\ SingleFailingStep(c) => Cardinality(FailedResults(c)) = 1

\* the run of a script whose single steps entry failed has returned
C6_Witness ==
    /\ pc[1] = "returned"
    /\ SingleFailingStep(1)
    /\ Len(heap[result[1].steps]) = 2

(***************************************************************************)
(* C7: a script with no setup and no teardown whose single steps entry     *)
(* succeeds returns passed = TRUE and exactly one StepResult, carrying the *)
(* step's action and success = TRUE.                                       *)
(***************************************************************************)
C7_SingleSuccessfulStep ==
    \A c \in Calls :
        (/\ pc[c] = "returned"
         /\ script[c].setup = <<>> /\ script[c].teardown = <<>>
         /\ Len(script[c].steps) = 1
         /\ \E j \in Pos : IsComplete(j, c, {"main"}) /\ events[j].success)
        => /\ result[c].passed
           /\ heap[result[c].steps]
                = <<StepResult(script[c].steps[1].action, TRUE, "")>>

\* such a run, of a step gated by a condition, has returned
C7_Witness ==
    /\ pc[1] = "returned"
    /\ script[1] = [setup |-> <<>>, steps |-> <<GatedStep>>, teardown |-> <<>>]
    /\ result[1].passed
    /\ Len(heap[result[1].steps]) = 1

(***************************************************************************)
(* C8: an abort() called while a setup or steps entry is executing lets    *)
(* that entry run to completion and record its result; no setup or steps   *)
(* entry is started after the abort; every teardown entry still runs.      *)
(***************************************************************************)
IsStepEvent(j, c) == events[j].call = c /\ events[j].type \in {"stepStart", "stepComplete"}

\* at position j of the log, the entry started at position i is executing
ExecutingAt(i, j, c) ==
    /\ i < j
    /\ IsStart(i, c, Phased)
    /\ \A k \in Pos : (i < k /\ k < j) => ~IsStepEvent(k, c)

\* C8: the entry executing when abort() is called completes and is
\* recorded, no setup or steps entry starts afterwards, teardown runs in full
C8_AbortDuringStep ==
    \A c \in Calls :
        \A j \in Pos :
            events[j].type = "abort" =>
                \A i \in 1..(j - 1) :
                    ExecutingAt(i, j, c) =>
                        /\ \A k \in (j + 1)..Len(events) : ~IsStart(k, c, Phased)
                        /\ Ended(c) =>
                             /\ \E k \in (j + 1)..Len(events) :
                                  /\ IsComplete(k, c, {events[i].phase})
                                  /\ events[k].idx = events[i].idx
                             /\ \E r \in 1..Len(heap[stepResults]) :
                                  heap[stepResults][r].action = events[i].action
                             /\ TeardownInFull(c)

\* abort() was called during the first of two steps entries; the entry
\* completed, the second was not started and the teardown entry ran
C8_Witness ==
    /\ pc[1] = "returned"
    /\ Len(script[1].steps) = 2
    /\ Started(1, "main") = <<1>>
    /\ Started(1, "teardown") = <<1>>
    /\ \E i, j, k \in Pos :
         /\ events[j].type = "abort"
         /\ ExecutingAt(i, j, 1)
         /\ k > j /\ IsComplete(k, 1, {"main"}) /\ events[k].success

(***************************************************************************)
(* C9: an abort() called during a run, before the run has entered a phase  *)
(* (setup or steps), makes that phase execute zero entries, and teardown   *)
(* still runs in full.  An abort() on the idle engine, before runScript    *)
(* is called, is cleared by runScript and has no such effect.              *)
(***************************************************************************)
IsScriptStart(i, c) == events[i].type = "scriptStart" /\ events[i].call = c

\* by position j of the log, call c has not entered phase ph
NotEntered(j, c, ph) ==
    \A k \in Pos :
        (k < j /\ events[k].call = c /\ events[k].type = "phase")
            => events[k].phase # ph

\* C9 (amended): an abort() made during the run before a phase is entered
\* leaves that phase with zero entries executed; teardown runs in full
C9_AbortBeforePhase ==
    \A c \in Calls :
        \A j \in Pos :
            (/\ events[j].type = "abort"
             /\ \E i \in Pos : i < j /\ IsScriptStart(i, c))
            => /\ \A ph \in Phased :
                    NotEntered(j, c, ph) => Started(c, ph) = <<>>
               /\ Ended(c) => TeardownInFull(c)

\* C9 as stated: also an abort() called before runScript is invoked keeps
\* the phases of that run from executing any entry
C9_AsStated ==
    \A c \in Calls :
        \A j \in Pos :
            events[j].type = "abort"
            => /\ \A ph \in Phased :
                    NotEntered(j, c, ph) => Started(c, ph) = <<>>
               /\ Ended(c) => TeardownInFull(c)

\* abort() was called during setup; the steps phase, two entries long, ran
\* none of them and the teardown entry ran
C9_Witness ==
    /\ pc[1] = "returned"
    /\ Len(script[1].steps) = 2
    /\ Started(1, "main") = <<>>
    /\ Started(1, "teardown") = <<1>>
    /\ \E i, j \in Pos :
         /\ i < j
         /\ IsScriptStart(i, 1)
         /\ events[j].type = "abort"
         /\ NotEntered(j, 1, "main")

(***************************************************************************)
(* C10: within a run steps neither overlap nor reorder: each stepStart is  *)
(* followed by the stepComplete of the same entry before the next          *)
(* stepStart, entries of a phase start in list order, setup entries come   *)
(* before steps entries, which come before teardown entries, and a step    *)
(* that has started and not completed is in its action, its post-delay or  *)
(* its condition wait.                                                     *)
(***************************************************************************)
Rank(ph) == CASE ph = "setup" -> 1 [] ph = "main" -> 2 [] OTHER -> 3

\* the stepStart and stepComplete events of call c, in the order emitted
StepLog(c) ==
    LET Sel(e) == e.call = c /\ e.type \in {"stepStart", "stepComplete"}
    IN SelectSeq(events, Sel)

\* entry f is the one that follows entry e: the next of its list, or the
\* first of a later phase
Follows(e, f) ==
    \/ e.phase = f.phase /\ f.idx = e.idx + 1
    \/ Rank(e.phase) < Rank(f.phase) /\ f.idx = 1

\* C10: step events alternate start / complete of the same entry, entries
\* start in list order and phase order, an open step is inside executeStep
C10_NoOverlapNoReorder ==
    \A c \in Calls :
        LET log == StepLog(c)
        IN /\ \A k \in 1..Len(log) :
                IF k = 1
                THEN log[k].type = "stepStart" /\ log[k].idx = 1
                ELSE IF log[k].type = "stepStart"
                     THEN /\ log[k - 1].type = "stepComplete"
                          /\ Follows(log[k - 1], log[k])
                     ELSE /\ log[k - 1].type = "stepStart"
                          /\ log[k - 1].phase = log[k].phase
                          /\ log[k - 1].idx = log[k].idx
           /\ (log # <<>> /\ log[Len(log)].type = "stepStart")
                 <=> pc[c] \in {"action", "delay", "cond", "poll"}

\* a run that executed an entry of each phase, the steps entry with its
\* post-delay and its condition wait
C10_Witness ==
    /\ pc[1] = "returned"
    /\ script[1].steps = <<GatedStep>>
    /\ Started(1, "setup") = <<1>>
    /\ Started(1, "main") = <<1>>
    /\ Started(1, "teardown") = <<1>>

(***************************************************************************)
(* C11: a run in which a setup or steps entry failed has recorded exactly  *)
(* one result with action "error" and success = FALSE, right after the     *)
(* results of the setup and steps entries executed and before every        *)
(* teardown result; a run in which no setup or steps entry failed has      *)
(* recorded none, also when teardown entries failed.                       *)
(***************************************************************************)
Completed(c, phs) == {j \in Pos : IsComplete(j, c, phs)}

SyntheticResults(rs) == {i \in 1..Len(rs) : rs[i].action = "error"}

\* C11: one synthetic "error" result after a failed setup or steps entry,
\* placed between the phases' results and the teardown results; else none
C11_OneSyntheticResult ==
    \A c \in Calls :
        pc[c] = "returned" =>
            LET rs == heap[result[c].steps]
                n == Cardinality(Completed(c, Phased))
            IN IF \E j \in Pos : IsFailure(j, c, Phased)
               THEN /\ SyntheticResults(rs) = {n + 1}
                    /\ ~rs[n + 1].success
                    /\ rs[n].action # "error" /\ rs[n + 1].error = rs[n].error
                    /\ Len(rs) = n + 1 + Cardinality(Completed(c, {"teardown"}))
               ELSE SyntheticResults(rs) = {}

\* the second setup entry failed and the teardown entry succeeded: the
\* synthetic result is the third of four
C11_Witness ==
    /\ pc[1] = "returned"
    /\ Len(heap[result[1].steps]) = 4
    /\ heap[result[1].steps][3].action = "error"
    /\ heap[result[1].steps][4].success
    /\ \E j \in Pos : IsFailure(j, 1, {"setup"}) /\ events[j].idx = 2

(***************************************************************************)
(* C12: isRunning() is FALSE on a new engine, TRUE from the moment         *)
(* runScript is called until its teardown loop is over, and FALSE once     *)
(* runScript has returned, whatever failed and whether or not abort() was  *)
(* called.                                                                 *)
(***************************************************************************)
InRun(c) == pc[c] \notin {"idle", "returned"}

\* C12: isRunning() is TRUE exactly while a runScript call is between its
\* entry and its return
C12_RunningWhileInRun ==
    /\ isRunning <=> \E c \in Calls : InRun(c)
    /\ events = <<>> => ~isRunning

\* an aborted run with a failed steps entry is in its teardown loop and
\* isRunning() is TRUE
C12_Witness ==
    /\ isRunning
    /\ aborted
    /\ phase[1] = "teardown" /\ pc[1] = "action"
    /\ \E j \in Pos : IsFailure(j, 1, {"main"})

(***************************************************************************)
(* C13: the variables belong to the engine, not to a run.  No step of a    *)
(* run changes the map, the start and the end of the run included, except  *)
(* the steps that store a variable (a set_variable step stores its one     *)
(* value); so what setVariable or a set_variable step stored is what       *)
(* getVariable returns and assert compares during and after later runs.    *)
(* The caller changes the map by setVariable, one key, or clearVariables,  *)
(* which leaves no key.                                                    *)
(***************************************************************************)
NoVariables == [v \in VarNames |-> Undefined]

\* the actions that store into the map: set_variable, get_cvar with
\* storeAs and find_image with storeX / storeY
StoringActions == {"set_variable", "get_cvar", "find_image"}

\* call c moves, and not by running a step that stores a variable
RunStepOtherThanSet(c) ==
    /\ pc'[c] # pc[c]
    /\ ~(pc[c] = "action" /\ CurrentStep(c).action \in StoringActions)

\* call c runs a set_variable step
SetVariableStep(c) ==
    /\ pc[c] = "action" /\ pc'[c] # pc[c]
    /\ CurrentStep(c).action = "set_variable"

\* C13: runs leave the map alone but for the steps that store; the caller
\* sets one key or clears them all
C13_VariablesOutliveRuns ==
    [][/\ \A c \in Calls :
            /\ RunStepOtherThanSet(c) => variables' = variables
            /\ SetVariableStep(c) =>
                 variables' = [variables EXCEPT ![CurrentStep(c).name] =
                                                    CurrentStep(c).value]
       /\ pc' = pc =>
            \/ variables' = NoVariables
            \/ \E name \in VarNames, value \in Values :
                  variables' = [variables EXCEPT ![name] = value]]_vars

\* the second run on the engine, a single assert of the number 5 with no
\* set_variable step, has passed: the value was stored by the caller
C13_Witness ==
    /\ nRuns = 2
    /\ pc[1] = "returned"
    /\ script[1] = [setup |-> <<>>, steps |-> <<AssertStep(Num("5"))>>,
                    teardown |-> <<>>]
    /\ result[1].passed
    /\ getVariable("k") = Num("5")

AllPhases == {"setup", "main", "teardown"}

IsScriptComplete(j, c) == events[j].type = "scriptComplete" /\ events[j].call = c

\* the events call c emitted, in the order emitted
CallLog(c) ==
    LET Sel(e) == e.call = c
    IN SelectSeq(events, Sel)

\* C15: scriptStart once and first, scriptComplete once and last, one
\* stepComplete for each stepStart
C15_LifecycleEvents ==
    \A c \in Calls :
        LET log == CallLog(c)
            steps == StepLog(c)
        IN /\ (log = <<>>) <=> pc[c] = "idle"
           /\ \A k \in 1..Len(log) :
                /\ (log[k].type = "scriptStart") <=> k = 1
                /\ (log[k].type = "scriptComplete") => k = Len(log)
           /\ (log # <<>> /\ log[Len(log)].type = "scriptComplete")
                 <=> pc[c] = "returned"
           /\ \A k \in 1..Len(steps) :
                IF k % 2 = 1
                THEN steps[k].type = "stepStart"
                ELSE /\ steps[k].type = "stepComplete"
                     /\ steps[k].phase = steps[k - 1].phase
                     /\ steps[k].idx = steps[k - 1].idx
           /\ Ended(c) => Len(steps) % 2 = 0

\* a run whose setup entry failed and whose teardown entry succeeded has
\* emitted scriptComplete
C15_Witness ==
    /\ pc[1] = "returned"
    /\ IsScriptComplete(Len(events), 1)
    /\ \E j, k \in Pos :
         /\ j < k
         /\ IsFailure(j, 1, {"setup"})
         /\ IsComplete(k, 1, {"teardown"}) /\ events[k].success

(***************************************************************************)
(* C16: waitForCondition always terminates.  For a condition that is never *)
(* met it returns false once the timeout of the condition (30000 ms when   *)
(* it has none) has elapsed, later than the timeout by less than one poll  *)
(* interval of 200 ms plus the time its last check took; a check that      *)
(* takes no time leaves an overshoot of less than one poll interval.       *)
(***************************************************************************)
InWait(c) == pc[c] \in {"cond", "poll"}

\* the timeout the condition of the current step asks for
AskedTimeout(c) ==
    IF CurrentStep(c).condition.timeout = 0
    THEN 30000
    ELSE CurrentStep(c).condition.timeout

\* waitForCondition is about to return false
ReturnsFalse(c) == pc[c] = "cond" /\ elapsed[c] >= AskedTimeout(c)

LongestCheck(c) ==
    CHOOSE d \in CheckDurations(CurrentStep(c).condition) :
        \A e \in CheckDurations(CurrentStep(c).condition) : e <= d

\* C16 (amended): the wait ends, and it returns false after the timeout by
\* less than one poll interval plus one check
C16_WaitTerminates ==
    /\ [](\A c \in Calls :
            ReturnsFalse(c) =>
                elapsed[c] < AskedTimeout(c) + PollInterval + LongestCheck(c))
    /\ \A c \in Calls : InWait(c) ~> ~InWait(c)

\* C16 as stated: it returns false at most one poll interval after the
\* timeout
C16_AsStated ==
    \A c \in Calls :
        ReturnsFalse(c) => elapsed[c] <= AskedTimeout(c) + PollInterval

\* a wait of 950 ms for a window that never appeared is about to return
\* false, 1350 ms after it began
C16_Witness ==
    /\ ReturnsFalse(1)
    /\ CurrentStep(1).condition = [type |-> "window_exists", timeout |-> 950]
    /\ elapsed[1] = 1350

(***************************************************************************)
(* C17: a condition of type timeout is a wait of fixed length:             *)
(* checkCondition is TRUE for it whenever it is asked, and a step gated by *)
(* it succeeds only once the timeout of the condition has elapsed.         *)
(***************************************************************************)
\* C17: the check of a timeout condition is TRUE and the step it gates
\* completes no earlier than the timeout
C17_TimeoutIsADelay ==
    [][\A c \in Calls :
          (pc[c] = "cond" /\ CurrentStep(c).condition.type = "timeout") =>
              /\ checkCondition(CurrentStep(c).condition) = {TRUE}
              /\ pc'[c] = "loop" =>
                   elapsed[c] >= CurrentStep(c).condition.timeout]_vars

(***************************************************************************)
(* C18: a pixel_color check with tolerance 10 is TRUE exactly when the     *)
(* sampled colour is within 10 of the expected colour on each of the       *)
(* channels r, g and b, each taken alone; it is FALSE when one channel is  *)
(* 11 or more away and when no pixel could be sampled.                     *)
(***************************************************************************)
Near(a, e, tol) == a \in (e - tol)..(e + tol)

\* C18: with tolerance 10 the answer is TRUE iff a pixel was sampled and
\* each channel is within 10 of the expected one
C18_PixelWithinTolerance ==
    (probe.stage = "returned" /\ probe.tolerance \in {0, 10}) =>
        /\ probe.answer <=>
              /\ probe.actual # NoPixel
              /\ Near(probe.actual.r, probe.expected.r, 10)
              /\ Near(probe.actual.g, probe.expected.g, 10)
              /\ Near(probe.actual.b, probe.expected.b, 10)
        /\ (\E ch \in {"r", "g", "b"} :
               \/ probe.actual[ch] - probe.expected[ch] >= 11
               \/ probe.expected[ch] - probe.actual[ch] >= 11) => ~probe.answer
        /\ probe.actual = NoPixel => ~probe.answer

\* the check of a pixel 10 above on r, 10 below on g and equal on b has
\* returned TRUE
C18_Witness ==
    /\ probe.stage = "returned"
    /\ probe.tolerance = 10
    /\ probe.actual = [r |-> 110, g |-> 90, b |-> 100]
    /\ probe.answer

(***************************************************************************)
(* C19: the action of an assert step returns exactly when the variable it  *)
(* names holds a value strictly equal to the expected one (same type, same *)
(* value) at the moment the step runs, and the step, which has no delay    *)
(* and no condition to wait for, then succeeds; otherwise its result has   *)
(* success = FALSE and an error that names the variable, the value it      *)
(* holds and the expected value, and the run returns passed = FALSE.       *)
(***************************************************************************)
\* the step has nothing to wait for once its action has returned
Ungated(step) == step.waitAfter = 0 /\ step.condition.type = "none"

\* call c runs the step it has started, of the given action
Runs(c, action) ==
    /\ pc[c] = "action" /\ pc'[c] # pc[c]
    /\ CurrentStep(c).action = action

\* the result the step run by this transition has pushed
Pushed == heap'[stepResults'][Len(heap'[stepResults'])]

AssertionError(name, actual, expected) ==
    "Error: Assertion failed: " \o name \o " = " \o actual.v
        \o ", expected " \o expected.v

\* C19: the assert succeeds iff the variable equals the expected value in
\* type and value; a failed assert is recorded with its error and fails
\* the run
C19_AssertStrictEquality ==
    /\ [][\A c \in Calls :
             Runs(c, "assert") =>
                 IF getVariable(CurrentStep(c).name) = CurrentStep(c).value
                 THEN /\ pc'[c] # "thrown"
                      /\ Ungated(CurrentStep(c)) =>
                           /\ Len(heap'[stepResults']) = Len(heap[stepResults]) + 1
                           /\ Pushed = StepResult("assert", TRUE, "")
                 ELSE /\ pc'[c] = "thrown"
                      /\ Len(heap'[stepResults']) = Len(heap[stepResults]) + 1
                      /\ Pushed = StepResult("assert", FALSE,
                            AssertionError(CurrentStep(c).name,
                                           getVariable(CurrentStep(c).name),
                                           CurrentStep(c).value))]_vars
    /\ [](\A c \in Calls :
             (/\ pc[c] = "returned"
              /\ \E j \in Pos : /\ IsFailure(j, c, AllPhases)
                                 /\ events[j].action = "assert")
             => ~result[c].passed)

\* the run of a script that stores the string '5' and then asserts the
\* number 5 has returned: the assert failed on a value that prints alike
C19_Witness ==
    /\ pc[1] = "returned"
    /\ script[1].steps = <<SetStep(Str("5")), AssertStep(Num("5"))>>
    /\ ~result[1].passed
    /\ Len(heap[result[1].steps]) = 3
    /\ heap[result[1].steps][2].error
          = "Error: Assertion failed: k = 5, expected 5"

(***************************************************************************)
(* C20: a step whose action executeAction does not know fails: its result  *)
(* has success = FALSE and an error that names the action, and the         *)
(* variables are as they were.  In setup or steps no further setup or      *)
(* steps entry is started after it; in teardown the entries after it are   *)
(* still started.                                                          *)
(***************************************************************************)
KnownActions ==
    QuietActions \cup RejectingActions \cup CheckedActions
        \cup {"get_cvar", "find_image", "assert", "set_variable", "log"}

IsUnknown(j, c, phs) ==
    IsComplete(j, c, phs) /\ events[j].action \notin KnownActions

\* C20: an unknown action fails its step and changes no variable; it halts
\* setup and steps, and does not halt teardown
C20_UnknownActionFails ==
    /\ [][\A c \in Calls :
             (Runs(c, CurrentStep(c).action)
              /\ CurrentStep(c).action \notin KnownActions) =>
                 /\ variables' = variables
                 /\ pc'[c] = "thrown"
                 /\ Len(heap'[stepResults']) = Len(heap[stepResults]) + 1
                 /\ Pushed = StepResult(CurrentStep(c).action, FALSE,
                        "Error: Unknown action: " \o CurrentStep(c).action)]_vars
    /\ [](\A c \in Calls : \A j \in Pos :
             /\ IsUnknown(j, c, AllPhases) => ~events[j].success
             /\ IsUnknown(j, c, Phased) =>
                  \A k \in (j + 1)..Len(events) : ~IsStart(k, c, Phased)
             /\ (/\ IsUnknown(j, c, {"teardown"})
                 /\ events[j].idx < Len(script[c].teardown)
                 /\ Ended(c))
                => \E k \in (j + 1)..Len(events) :
                      /\ IsStart(k, c, {"teardown"})
                      /\ events[k].idx = events[j].idx + 1)

\* a run of two unknown teardown entries has returned with both executed
C20_Witness ==
    /\ pc[1] = "returned"
    /\ script[1].teardown = <<UnknownStep, UnknownStep>>
    /\ Started(1, "teardown") = <<1, 2>>
    /\ Len(heap[result[1].steps]) = 2
    /\ ~result[1].passed

(***************************************************************************)
(* The timeout a wait action hands to its collaborator.  A step is         *)
(* { action, params, timeout?, waitAfter?, condition? } (part_004, lines   *)
(* 72-78); executeStep passes step.action and step.params to executeAction *)
(* (line 426), and the wait actions call the collaborator with             *)
(* (params.timeout as number) || 30000 (lines 643, 652, 660).  An absent   *)
(* timeout is 0 here, which || treats as an absent one does.               *)
(***************************************************************************)
WaitActions == {"wait_for_console", "wait_for_pixel", "wait_for_image"}

\* the values of step.timeout and of params.timeout, in ms; 0 is absent
StepTimeouts == {0, 100, 500, 1000, 30000, 60000}

\* (params.timeout as number) || 30000
DelegatedTimeout(step) ==
    IF step.params.timeout = 0 THEN DefaultTimeout ELSE step.params.timeout

NoWaitCall == [action |-> "none", timeout |-> 0]

InitDelegate ==
    /\ NewEngine
    /\ probe \in {[stage |-> "step",
                   step |-> [action |-> a, timeout |-> t,
                             params |-> [timeout |-> pt]],
                   params |-> [timeout |-> 0],
                   call |-> NoWaitCall] :
                      a \in WaitActions, t \in StepTimeouts, pt \in StepTimeouts}

\* executeStep, line 426: executeAction receives the action and the params
\* of the step, and nothing else of it
executeStepDelegates ==
    /\ probe.stage = "step"
    /\ probe' = [probe EXCEPT !.stage = "action", !.params = probe.step.params]
    /\ UNCHANGED <<running, aborted, stepResults, heap, variables,
                   currentScript, events, pc, script, phase, idx, elapsed,
                   err, result, nRuns>>

\* executeAction, lines 640-662: the wait of the collaborator is called
waitCollaborator ==
    /\ probe.stage = "action"
    /\ probe' = [probe EXCEPT
                   !.stage = "waiting",
                   !.call = [action |-> probe.step.action,
                             timeout |-> DelegatedTimeout(
                                 [probe.step EXCEPT !.params = probe.params])]]
    /\ UNCHANGED <<running, aborted, stepResults, heap, variables,
                   currentScript, events, pc, script, phase, idx, elapsed,
                   err, result, nRuns>>

NextDelegate == executeStepDelegates \/ waitCollaborator

SpecDelegate == InitDelegate /\ [][NextDelegate]_vars

(***************************************************************************)
(* C21: a wait_for_console or wait_for_image step with step.timeout = T    *)
(* has its collaborator wait called with timeout T.                        *)
(***************************************************************************)
\* C21: the wait is called with the timeout of the step
C21_StepTimeoutDelegated ==
    (/\ probe.stage = "waiting"
     /\ probe.step.action \in {"wait_for_console", "wait_for_image"}
     /\ probe.step.timeout # 0)
    => probe.call.timeout = probe.step.timeout

(***************************************************************************)
(* The console buffer of ProcessLauncher (src/src/build-system.ts, lines   *)
(* 1004-1005 and 1195-1217).  A line is named by its rank among the lines  *)
(* the process has written, so that the buffer shows which lines it holds  *)
(* and in what order.                                                      *)
(***************************************************************************)
\* private maxBufferLines = 10000
maxBufferLines == 10000

\* the lines the process writes in all
MaxLines == 15002

\* the non-blank lines of one chunk of output
MaxChunk == 2

\* Array.prototype.slice(-n), n > 0
SliceLast(buf, n) ==
    IF Len(buf) <= n THEN buf ELSE SubSeq(buf, Len(buf) - n + 1, Len(buf))

\* mutant: the buffer is never trimmed
TrimmedNever(buf) == buf

\* lines 1208-1210: if (length > maxBufferLines) slice(-maxBufferLines / 2)
Trimmed(buf) ==
    IF Len(buf) > maxBufferLines
    THEN SliceLast(buf, maxBufferLines \div 2)
    ELSE buf

\* the for loop of handleOutput, lines 1198-1217, over the lines of a chunk
RECURSIVE pushLines(_, _)
pushLines(buf, lines) ==
    IF lines = <<>> THEN buf
    ELSE pushLines(Trimmed(Append(buf, Head(lines))), Tail(lines))

\* the lines a launcher has received when it is first looked at: none, or
\* nearly as many as the buffer takes, none of which was trimmed yet
StartLines == {0, maxBufferLines - 2}

InitBuffer ==
    /\ NewEngine
    /\ probe \in {[stage |-> "buffer",
                    consoleBuffer |-> [i \in 1..n |-> i],
                    received |-> n] : n \in StartLines}

\* handleOutput(text, type): text holds k non-blank lines
handleOutput(k) ==
    /\ probe.stage = "buffer"
    /\ probe.received + k <= MaxLines
    /\ probe' = [probe EXCEPT
                   !.consoleBuffer =
                       pushLines(@, [i \in 1..k |-> probe.received + i]),
                   !.received = @ + k]
    /\ UNCHANGED <<running, aborted, stepResults, heap, variables,
                   currentScript, events, pc, script, phase, idx, elapsed,
                   err, result, nRuns>>

NextBuffer == \E k \in 1..MaxChunk : handleOutput(k)

SpecBuffer == InitBuffer /\ [][NextBuffer]_vars

(***************************************************************************)
(* C22: the console buffer never holds more than 10,000 lines; the line    *)
(* that takes it past 10,000 leaves it with the 5,000 most recent lines,   *)
(* and it always holds the most recent lines in the order written.         *)
(***************************************************************************)
\* the lines of ranks m+1 .. n
Ranks(m, n) == [i \in 1..(n - m) |-> m + i]

\* C22: at most 10,000 lines; each call leaves a run of the most recent
\* lines, in order; the 10,001st line of the buffer leaves 5,000
C22_BufferBounded ==
    /\ [](Len(probe.consoleBuffer) <= 10000)
    /\ [][LET old == probe.consoleBuffer
              new == probe'.consoleBuffer
              all == old \o Ranks(probe.received, probe'.received)
          IN /\ new = SliceLast(all, Len(new))
             /\ new # <<>> /\ new[Len(new)] = probe'.received
             /\ (Len(old) = 10000 /\ probe'.received = probe.received + 1)
                   => new = SliceLast(all, 5000) /\ Len(new) = 5000
             /\ Len(all) <= 10000 => new = all]_vars

\* the 10,001st line has been pushed: the buffer holds the 5,000 lines
\* from the 5,002nd to it
C22_Witness ==
    /\ probe.stage = "buffer"
    /\ probe.received = 10001
    /\ Len(probe.consoleBuffer) = 5000
    /\ probe.consoleBuffer[1] = 5002
    /\ probe.consoleBuffer[5000] = 10001

(***************************************************************************)
(* BuildSystem (src/src/build-system.ts, lines 36-39 and 179-305): the     *)
(* fields isBuilding, buildProcess and outputBuffer under build(),         *)
(* cancelBuild() and the events of the processes build() spawned.  build() *)
(* calls are numbered; a process is named by the call that spawned it, and *)
(* 0 is null.  The status of a call is where it is: "none" (not made),     *)
(* "cpu" (suspended in await getCpuCount()), "spawned" (its process runs), *)
(* "killed" (its process got SIGTERM and has not closed), "errored" (its   *)
(* process emitted error and has not closed), "closed" (its process        *)
(* closed, the promise is resolved), "nodir" (returned at line 184).       *)
(***************************************************************************)
\* build() calls made on one BuildSystem
MaxBuilds == 2

\* chunks of output kept apart in outputBuffer
MaxOutput == 2

Builds == 1..MaxBuilds

\* the calls whose process is alive
Alive(p) == {b \in Builds : p.call[b] \in {"spawned", "killed", "errored"}}

InitBuild ==
    /\ NewEngine
    /\ probe = [stage |-> "build", isBuilding |-> FALSE, buildProcess |-> 0,
                outputBuffer |-> 0, call |-> [b \in Builds |-> "none"],
                cancelled |-> "none"]

\* build(config), lines 179-201: the reset of the buffer, the flag, the
\* early return when the build directory is missing, and either the spawn
\* (config.jobs given) or the suspension in await getCpuCount()
build(b, dirExists, jobsGiven) ==
    /\ probe.stage = "build"
    /\ probe.call[b] = "none"
    /\ \A a \in Builds : a < b => probe.call[a] # "none"
    /\ probe' = [probe EXCEPT
                   !.outputBuffer = 0,
                   !.isBuilding = TRUE,
                   !.buildProcess = IF dirExists /\ jobsGiven THEN b ELSE @,
                   !.call[b] = IF ~dirExists THEN "nodir"
                               ELSE IF jobsGiven THEN "spawned" ELSE "cpu"]
    /\ UNCHANGED <<running, aborted, stepResults, heap, variables,
                   currentScript, events, pc, script, phase, idx, elapsed,
                   err, result, nRuns>>

\* build, lines 197-211, after getCpuCount() has resolved
spawnBuild(b) ==
    /\ probe.stage = "build"
    /\ probe.call[b] = "cpu"
    /\ probe' = [probe EXCEPT !.buildProcess = b, !.call[b] = "spawned"]
    /\ UNCHANGED <<running, aborted, stepResults, heap, variables,
                   currentScript, events, pc, script, phase, idx, elapsed,
                   err, result, nRuns>>

\* the data listeners, lines 214-241
onBuildData(b) ==
    /\ probe.stage = "build"
    /\ b \in Alive(probe)
    /\ probe.outputBuffer < MaxOutput
    /\ probe' = [probe EXCEPT !.outputBuffer = @ + 1]
    /\ UNCHANGED <<running, aborted, stepResults, heap, variables,
                   currentScript, events, pc, script, phase, idx, elapsed,
                   err, result, nRuns>>

\* the close listener, lines 243-253
onBuildClose(b) ==
    /\ probe.stage = "build"
    /\ b \in Alive(probe)
    /\ probe' = [probe EXCEPT
                   !.isBuilding = FALSE, !.buildProcess = 0,
                   !.call[b] = "closed"]
    /\ UNCHANGED <<running, aborted, stepResults, heap, variables,
                   currentScript, events, pc, script, phase, idx, elapsed,
                   err, result, nRuns>>

\* the error listener, lines 255-265: the process could not be spawned or
\* killed; close may follow
onBuildError(b) ==
    /\ probe.stage = "build"
    /\ probe.call[b] \in {"spawned", "killed"}
    /\ probe' = [probe EXCEPT
                   !.isBuilding = FALSE, !.buildProcess = 0,
                   !.call[b] = "errored"]
    /\ UNCHANGED <<running, aborted, stepResults, heap, variables,
                   currentScript, events, pc, script, phase, idx, elapsed,
                   err, result, nRuns>>

\* cancelBuild(), lines 287-295
cancelBuild ==
    /\ probe.stage = "build"
    /\ probe' = IF probe.buildProcess # 0
                THEN [probe EXCEPT
                        !.call[probe.buildProcess] =
                            IF @ = "spawned" THEN "killed" ELSE @,
                        !.isBuilding = FALSE,
                        !.buildProcess = 0,
                        !.cancelled = "true"]
                ELSE [probe EXCEPT !.cancelled = "false"]
    /\ UNCHANGED <<running, aborted, stepResults, heap, variables,
                   currentScript, events, pc, script, phase, idx, elapsed,
                   err, result, nRuns>>

\* getBuildStatus(), lines 300-305
getBuildStatus == [isBuilding |-> probe.isBuilding, output |-> probe.outputBuffer]

NextBuild ==
    \/ \E b \in Builds, dirExists \in BOOLEAN, jobsGiven \in BOOLEAN :
          build(b, dirExists, jobsGiven)
    \/ \E b \in Builds : spawnBuild(b)
    \/ \E b \in Builds : onBuildData(b)
    \/ \E b \in Builds : onBuildClose(b)
    \/ \E b \in Builds : onBuildError(b)
    \/ cancelBuild

SpecBuild == InitBuild /\ [][NextBuild]_vars

(***************************************************************************)
(* C23: getBuildStatus().isBuilding is true only while a build process is  *)
(* active: when cancelBuild() would return false because there is no build *)
(* process, and no build() call is on its way to spawn one, isBuilding is  *)
(* false.                                                                  *)
(***************************************************************************)
\* C23: no build process and no build() about to spawn one: not building
C23_BuildingOnlyWhileActive ==
    (/\ probe.buildProcess = 0
     /\ \A b \in Builds : probe.call[b] # "cpu")
    => ~getBuildStatus.isBuilding

(***************************************************************************)
(* C24: within a step the action runs first, then the waitAfter delay,     *)
(* then the condition wait; when the action throws, the step goes to the   *)
(* handler of its phase loop without a delay or a condition check, with a  *)
(* failed StepResult recorded and stepComplete emitted.                    *)
(***************************************************************************)
\* call c leaves position `from` of its step for position `to`
Moves(c, from, to) == pc[c] = from /\ pc'[c] = to

\* C24: the delay is entered from the action only, the condition wait from
\* the delay (or from the action when there is no delay); an action that
\* throws leads to the handler, with the failure recorded
C24_ActionDelayCondition ==
    [][\A c \in Calls :
          LET step == CurrentStep(c)
          IN /\ (pc'[c] = "delay" /\ pc[c] # "delay")
                   => pc[c] = "action" /\ step.waitAfter > 0 /\ err'[c] = ""
             /\ (pc'[c] = "cond" /\ pc[c] \notin {"cond", "poll"})
                   => \/ pc[c] = "delay"
                      \/ pc[c] = "action" /\ step.waitAfter = 0
             /\ (pc[c] = "action" /\ pc'[c] # "action" /\ step.waitAfter > 0)
                   => pc'[c] \in {"delay", "thrown"}
             /\ (pc[c] = "delay" /\ pc'[c] # "delay")
                   => pc'[c] = IF step.condition.type # "none"
                               THEN "cond" ELSE "loop"
             /\ Moves(c, "action", "thrown")
                   => /\ err'[c] # ""
                      /\ elapsed'[c] = 0
                      /\ heap'[stepResults] =
                            Append(heap[stepResults],
                                   StepResult(step.action, FALSE, err'[c]))
                      /\ events' # <<>>
                      /\ events'[Len(events')] =
                            Event("stepComplete", c, phase[c], idx[c],
                                  step.action, FALSE)
             /\ (pc[c] = "thrown" /\ pc'[c] # "thrown")
                   => pc'[c] \in {"finally", "loop"}]_vars

\* the action of a step with a post-delay and a condition has thrown: the
\* call is on its way to the handler, one failed result recorded
C24_Witness ==
    /\ pc[1] = "thrown"
    /\ script[1].steps = <<GatedImageStep>>
    /\ err[1] = "Error: wait_for_image failed"
    /\ heap[stepResults] = <<StepResult("wait_for_image", FALSE, err[1])>>

(***************************************************************************)
(* C25: a step whose condition is not met at any poll before the timeout   *)
(* of the condition has elapsed is recorded with success = FALSE and an    *)
(* error that names the condition, and halts its phase as a failing action *)
(* does; a condition met at a poll made before the timeout has elapsed     *)
(* makes the step succeed.                                                 *)
(***************************************************************************)
\* the text of a condition that has a timeout of its own, as the error of
\* the step shows it
Named(cond) ==
    "{\"type\":\"" \o cond.type \o "\",\"params\":{},\"timeout\":"
        \o ToString(cond.timeout) \o "}"

\* the step events of call c that record a condition that was not met: in
\* these scripts the steps with a condition have an action that cannot fail
ConditionFailures(log) ==
    {k \in 1..Len(log) : /\ log[k].type = "stepComplete"
                         /\ ~log[k].success
                         /\ log[k].action = "log"}

\* C25: the wait fails only once the timeout has elapsed, with the named
\* error recorded; a poll that is met before that makes the step succeed;
\* after the failure no setup or steps entry starts
C25_ConditionTimeoutFails ==
    /\ [][\A c \in Calls :
            LET step == CurrentStep(c)
            IN /\ Moves(c, "cond", "thrown")
                    => /\ elapsed[c] >= step.condition.timeout
                       /\ err'[c] = "Error: Condition not met: "
                                        \o Named(step.condition)
                       /\ heap'[stepResults] =
                             Append(heap[stepResults],
                                    StepResult(step.action, FALSE, err'[c]))
               /\ Moves(c, "cond", "loop")
                    => /\ elapsed[c] < step.condition.timeout
                       /\ heap'[stepResults] =
                             Append(heap[stepResults],
                                    StepResult(step.action, TRUE, ""))
               /\ (pc[c] = "cond" /\ elapsed[c] < step.condition.timeout)
                    => pc'[c] # "thrown"
               /\ (pc[c] = "thrown" /\ pc'[c] # "thrown")
                    => pc'[c] = IF phase[c] = "teardown"
                                THEN "loop" ELSE "finally"]_vars
    /\ [](\A c \in Calls :
            LET log == StepLog(c)
            IN \A k \in ConditionFailures(log) :
                  log[k].phase \in Phased
                     => \A m \in (k + 1)..Len(log) : log[m].phase = "teardown")

\* the condition of the first of two steps entries was not met in 200 ms:
\* the entry is recorded as failed with the condition named, the second
\* entry was not started and the run is over
C25_Witness ==
    /\ pc[1] = "returned"
    /\ script[1].steps = <<GatedStep, ImageStep>>
    /\ Started(1, "main") = <<1>>
    /\ heap[result[1].steps][1] =
          StepResult("log", FALSE,
                     "Error: Condition not met: {\"type\":\"window_exists\",\"params\":{},\"timeout\":200}")

(***************************************************************************)
(* C26: a condition whose type is none of console_pattern, pixel_color,    *)
(* cvar_value, window_exists and timeout is false at every poll: the step  *)
(* it gates always fails, and not before the timeout of the condition      *)
(* (30000 ms when it has none) has elapsed.                                *)
(***************************************************************************)
KnownConditions ==
    {"console_pattern", "pixel_color", "cvar_value", "window_exists", "timeout"}

\* call c is in the condition wait of a step whose condition has no known
\* type
InUnknownWait(c) ==
    /\ pc[c] \in {"cond", "poll"}
    /\ CurrentStep(c).condition.type \notin KnownConditions \cup {"none"}

\* the timeout the wait of call c runs to
FullTimeout(c) ==
    IF CurrentStep(c).condition.timeout = 0
    THEN 30000
    ELSE CurrentStep(c).condition.timeout

\* C26: no poll of such a condition ends the wait before the timeout has
\* elapsed, the wait ends in the failure of the step, and it does end
C26_UnknownConditionFails ==
    /\ [][\A c \in Calls :
            (InUnknownWait(c) /\ pc[c] = "cond" /\ pc'[c] # "cond")
               => IF elapsed[c] < FullTimeout(c)
                  THEN pc'[c] = "poll"
                  ELSE /\ pc'[c] = "thrown"
                       /\ ~heap'[stepResults][Len(heap'[stepResults])].success]_vars
    /\ \A c \in Calls : InUnknownWait(c) ~> pc[c] = "thrown"

\* the step gated by a condition of type "never" with no timeout of its own
\* has failed, after the 151 polls of 30000 ms
C26_Witness ==
    /\ pc[1] = "thrown"
    /\ script[1].steps = <<WaitStep("never", 0)>>
    /\ err[1] = "Error: Condition not met: {\"type\":\"never\",\"params\":{}}"
    /\ heap[stepResults] = <<StepResult("log", FALSE, err[1])>>

(***************************************************************************)
(* One action and the StepResult of its step, by how the collaborator call *)
(* of the action ended (executeStep, lines 424-461, for a step with no     *)
(* waitAfter and no condition).                                            *)
(***************************************************************************)
NoStepResult == StepResult("", FALSE, "")

InitAnswer ==
    /\ NewEngine
    /\ probe \in {[stage |-> "called", action |-> a, answer |-> "none",
                   result |-> NoStepResult] : a \in CollaboratorActions}

\* the collaborator call awaited by executeAction ends
collaboratorAnswers ==
    /\ probe.stage = "called"
    /\ \E answer \in CollaboratorAnswers(probe.action) :
          probe' = [probe EXCEPT !.stage = "answered", !.answer = answer]
    /\ UNCHANGED <<running, aborted, stepResults, heap, variables,
                   currentScript, events, pc, script, phase, idx, elapsed,
                   err, result, nRuns>>

\* executeAction returns or throws, and executeStep builds the StepResult
\* (lines 441-445 and 451-456)
executeStepRecords ==
    /\ probe.stage = "answered"
    /\ LET o == ActionOutcome(probe.action, probe.answer, variables)
       IN probe' = [probe EXCEPT
                      !.stage = "recorded",
                      !.result = IF o.error = ""
                                 THEN SuccessRecord(probe)[1]
                                 ELSE FailureRecord(probe, o.error)[1]]
    /\ UNCHANGED <<running, aborted, stepResults, heap, variables,
                   currentScript, events, pc, script, phase, idx, elapsed,
                   err, result, nRuns>>

NextAnswer == collaboratorAnswers \/ executeStepRecords

SpecAnswer == InitAnswer /\ [][NextAnswer]_vars

(***************************************************************************)
(* C27: for command, set_cvar, load_map, exec_config, focus_window,        *)
(* wait_for_console and wait_for_pixel a negative value returned by the    *)
(* collaborator still gives a StepResult with success = TRUE; the step of  *)
(* a collaborator action fails only when the call throws or the engine     *)
(* raises on what was returned.                                            *)
(***************************************************************************)
Unchecked ==
    {"command", "set_cvar", "load_map", "exec_config", "focus_window",
     "wait_for_console", "wait_for_pixel"}

\* the actions after which the engine itself throws on a negative value
Raising ==
    {"screenshot", "check_pixel", "wait_for_image", "assert_running",
     "assert_not_running"}

\* C27: a negative answer to an unchecked action is a success; a failure
\* comes from a throw or from a check of the engine
C27_NegativeAnswerSucceeds ==
    probe.stage = "recorded" =>
        /\ (probe.action \in Unchecked /\ probe.answer = "negative")
              => /\ probe.result.success
                 /\ probe.result.error = ""
                 /\ probe.result.action = probe.action
        /\ ~probe.result.success
              => \/ probe.answer = "throws"
                 \/ probe.answer = "negative" /\ probe.action \in Raising

\* sendCommand answered success = false to a command step, and the step is
\* recorded as a success
C27_Witness ==
    /\ probe.stage = "recorded"
    /\ probe.action = "command"
    /\ probe.answer = "negative"
    /\ probe.result = StepResult("command", TRUE, "")

(***************************************************************************)
(* C28: abort() records no failure.  A run that was aborted and in which   *)
(* no step failed, teardown included, returns passed = TRUE and the        *)
(* successful results of the entries it executed, nothing else: what a     *)
(* script made of those entries alone returns.                             *)
(***************************************************************************)
\* abort() was called between the scriptStart and the scriptComplete of
\* call c
AbortedInRun(c) ==
    \E i, j \in Pos :
        /\ i < j
        /\ IsScriptStart(i, c)
        /\ events[j].type = "abort"
        /\ \A k \in 1..j : ~IsScriptComplete(k, c)

\* the stepComplete events of call c
Completions(c) ==
    LET Done(e) == e.type = "stepComplete"
    IN SelectSeq(StepLog(c), Done)

\* C28: the TestResult of an aborted run with no failing step
C28_AbortRecordsNoFailure ==
    \A c \in Calls :
        LET done == Completions(c)
        IN (/\ pc[c] = "returned"
            /\ AbortedInRun(c)
            /\ \A k \in 1..Len(done) : done[k].success)
           => /\ result[c].passed
              /\ heap[result[c].steps]
                   = [k \in 1..Len(done) |-> StepResult(done[k].action, TRUE, "")]

\* abort() was called during the first of two steps entries: the run
\* returned passed = TRUE with the result of that entry and of the teardown
\* entry, as the script without the second entry would
C28_Witness ==
    /\ pc[1] = "returned"
    /\ AbortedInRun(1)
    /\ script[1] = [setup |-> <<>>, steps |-> <<ImageStep, ImageStep>>,
                    teardown |-> <<ImageStep>>]
    /\ Started(1, "main") = <<1>>
    /\ result[1].passed
    /\ heap[result[1].steps] = <<StepResult("wait_for_image", TRUE, ""),
                                 StepResult("wait_for_image", TRUE, "")>>

(***************************************************************************)
(* C29: cancellation does not leak into the next run.  runScript clears    *)
(* the abort flag and starts a new, empty list of results; a run that was  *)
(* started after an aborted run returned, and is not aborted itself,       *)
(* starts every setup and steps entry up to its first failure, and its     *)
(* TestResult holds the results of its own steps only.                     *)
(***************************************************************************)
\* a setup or steps entry of call c failed
FailedInPhases(c) == \E j \in Pos : IsFailure(j, c, Phased)

\* C29: the second run (call 2) of an engine whose first run is over
C29_NoLeakAcrossRuns ==
    /\ [][Moves(2, "idle", "try")
             => /\ ~aborted'
                /\ heap'[stepResults'] = <<>>
                /\ stepResults' # result[1].steps
                /\ heap'[result[1].steps] = heap[result[1].steps]]_vars
    /\ [](/\ (Ended(2) /\ ~AbortedInRun(2) /\ ~FailedInPhases(2))
               => /\ Started(2, "setup") = OneToN(Len(script[2].setup))
                  /\ Started(2, "main") = OneToN(Len(script[2].steps))
          /\ pc[2] = "returned"
               => /\ Recorded(2) = ExpectedResults(2, Len(events))
                  /\ \A i \in 1..Len(heap[result[2].steps]) :
                        heap[result[2].steps][i].action # "wait_for_image")

\* the first run was aborted during the first of its two steps, which
\* succeeded; the second run executed its setup entry and its steps entry
\* and returned their two results
C29_Witness ==
    /\ pc[1] = "returned" /\ pc[2] = "returned"
    /\ Len(script[1].steps) = 2
    /\ result[1].passed
    /\ heap[result[1].steps] = <<StepResult("wait_for_image", TRUE, "")>>
    /\ script[2].setup = <<ShotStep>> /\ script[2].steps = <<ShotStep>>
    /\ ~aborted
    /\ result[2].passed
    /\ heap[result[2].steps] = <<StepResult("screenshot", TRUE, ""),
                                 StepResult("screenshot", TRUE, "")>>

(***************************************************************************)
(* DemoManager (src/unnamed/part_004, lines 672-840): the state fields     *)
(* isRecording, isPlaying and currentDemo under startRecording,            *)
(* stopRecording, playDemo and stopPlayback.  Each method tests the flags, *)
(* awaits consoleManager.sendCommand, which resolves on every path, and    *)
(* assigns the flags after the await; a call is "none" (not made),         *)
(* "sending" (suspended in the await) or "done".                           *)
(***************************************************************************)
\* calls made on one DemoManager
MaxDemoCalls == 3

DemoCalls == 1..MaxDemoCalls

DemoMethods == {"startRecording", "stopRecording", "playDemo", "stopPlayback"}

NoDemoCall == [method |-> "none", at |-> "none", success |-> FALSE]

InitDemo ==
    /\ NewEngine
    /\ probe = [stage |-> "demo", isRecording |-> FALSE, isPlaying |-> FALSE,
                currentDemo |-> "null", recordStartTime |-> "null",
                call |-> [k \in DemoCalls |-> NoDemoCall]]

\* the guards at the head of a method: TRUE when the method returns
\* success: false before it sends anything
Refused(method) ==
    CASE method = "startRecording" -> probe.isRecording \/ probe.isPlaying
      [] method = "stopRecording" -> ~probe.isRecording
      [] method = "playDemo" -> probe.isRecording
      [] OTHER -> ~probe.isPlaying

\* a method is called: lines 705-724, 748-761, 785-796, 817-825, up to the
\* await of sendCommand
callDemo(k, method) ==
    /\ probe.stage = "demo"
    /\ probe.call[k].at = "none"
    /\ \A j \in DemoCalls : j < k => probe.call[j].at # "none"
    /\ probe' = [probe EXCEPT
                   !.call[k] = IF Refused(method)
                               THEN [method |-> method, at |-> "done",
                                     success |-> FALSE]
                               ELSE [method |-> method, at |-> "sending",
                                     success |-> FALSE]]
    /\ UNCHANGED <<running, aborted, stepResults, heap, variables,
                   currentScript, events, pc, script, phase, idx, elapsed,
                   err, result, nRuns>>

\* sendCommand has resolved: lines 727-735, 764-772, 799-805, 828-835
sendCommandResolved(k) ==
    /\ probe.stage = "demo"
    /\ probe.call[k].at = "sending"
    /\ LET method == probe.call[k].method
       IN probe' = [probe EXCEPT
                      !.isRecording =
                          CASE method = "startRecording" -> TRUE
                            [] method = "stopRecording" -> FALSE
                            [] OTHER -> @,
                      !.isPlaying =
                          CASE method = "playDemo" -> TRUE
                            [] method = "stopPlayback" -> FALSE
                            [] OTHER -> @,
                      !.currentDemo =
                          CASE method = "startRecording" -> "recorded"
                            [] method = "playDemo" -> "played"
                            [] OTHER -> "null",
                      !.recordStartTime =
                          CASE method = "startRecording" -> "now"
                            [] method = "stopRecording" -> "null"
                            [] OTHER -> @,
                      !.call[k] = [method |-> method, at |-> "done",
                                   success |-> TRUE]]
    /\ UNCHANGED <<running, aborted, stepResults, heap, variables,
                   currentScript, events, pc, script, phase, idx, elapsed,
                   err, result, nRuns>>

NextDemo ==
    \/ \E k \in DemoCalls, method \in DemoMethods : callDemo(k, method)
    \/ \E k \in DemoCalls : sendCommandResolved(k)

SpecDemo == InitDemo /\ [][NextDemo]_vars

(***************************************************************************)
(* C30: DemoManager is never recording and playing at the same time, also  *)
(* when startRecording and playDemo calls overlap.                         *)
(***************************************************************************)
\* C30: isRecording and isPlaying are not both true
C30_NeverRecordingAndPlaying ==
    probe.stage = "demo" => ~(probe.isRecording /\ probe.isPlaying)
====
